---- MODULE Spec2Model ----
(***************************************************************************)
(* Model of the agentic chief-of-staff backend:                            *)
(*   - the LangGraph workflow of app/agents/graph.py (router, workers,     *)
(*     synthesizer, iteration bound);                                      *)
(*   - the pending-event protocol of app/agents/calendar_agent.py;         *)
(*   - the pending-email protocol of app/agents/email_agent.py.            *)
(***************************************************************************)
EXTENDS Integers, Sequences, FiniteSets, TLC

VARIABLES
    \* ---- workflow run (graph.py, AgentState) ----
    node,                       \* the node the graph runs next
    iteration_count,            \* state['iteration_count']
    results,                    \* state['results'], entries [agent_name, status]
    messages,                   \* messages appended by this run (agent_name of each)
    current_agent,              \* state['current_agent']
    next_agent,                 \* state['next_agent']
    user_clarification_needed,  \* state['user_clarification_needed']
    task_context,               \* state['task_context'] (caller-supplied)
    max_iterations,             \* settings.MAX_AGENT_ITERATIONS as configured
    steps,                      \* history: number of executed steps per kind of node
    \* ---- conversation metadata store and agents ----
    pending_event,              \* metadata['pending_event']: <<>> or <<details>>
    pending_email,              \* metadata['pending_email']: <<>> or <<email_content>>
    history,                    \* scheduling details replayed from the user messages
    now,                        \* datetime.utcnow(), in minutes
    tz_ok,                      \* settings.GOOGLE_CALENDAR_TIMEZONE names a time zone
    last,                       \* history: what the latest turn of an agent did
    busy_window,                \* history: the window a conflict check found busy,
                                \* kept while the pending event keeps that window
    turns,                      \* the requests in flight: position and locals of each
    \* ---- calls of pure functions ----
    att_list,                   \* _merge_attendees: the attendee list built so far
    att_new,                    \* _merge_attendees: the list merged last
    att_twice,                  \* the result of merging att_new a second time
    att_orders,                 \* the results of merging att_new in each order
    merges,                     \* number of merges done
    fallback_task,              \* _fallback_analysis: the task text classified last
    fallback_decision           \* _fallback_analysis: <<>> or <<the decision returned>>

flowVars == <<node, iteration_count, results, messages, current_agent, next_agent,
              user_clarification_needed, task_context, max_iterations, steps>>

agentVars == <<pending_event, pending_email, history, now, tz_ok, last, busy_window,
               turns>>

pureVars == <<att_list, att_new, att_twice, att_orders, merges,
              fallback_task, fallback_decision>>

vars == <<flowVars, agentVars, pureVars>>

None == "None"

\* str.upper() and str.lower() on the strings of the model.
Upper(s) ==
    CASE s = "calendar" -> "CALENDAR"
      [] s = "email" -> "EMAIL"
      [] s = "research" -> "RESEARCH"
      [] s = "task" -> "TASK"
      [] s = "analytics" -> "ANALYTICS"
      [] s = "pdf" -> "PDF"
      [] OTHER -> s

Lower(s) ==
    CASE s = "E1" -> "e1"
      [] s = "N1" -> "n1"
      [] s = "CALENDAR" -> "calendar"
      [] s = "EMAIL" -> "email"
      [] s = "RESEARCH" -> "research"
      [] s = "TASK" -> "task"
      [] s = "ANALYTICS" -> "analytics"
      [] s = "PDF" -> "pdf"
      [] OTHER -> s

(***************************************************************************)
(* Bounds of the model.                                                    *)
(***************************************************************************)
MaxConfigured == 5      \* configured values of MAX_AGENT_ITERATIONS: 0..MaxConfigured
MaxPlan == 2            \* delegations in one router decision
MaxTicks == 2           \* the clock advances at most MaxTicks times
MaxMerges == 2          \* attendee merges applied one after the other

(***************************************************************************)
(* graph.py: the agent registry and the graph's tables.                    *)
(***************************************************************************)
Workers == {"calendar", "email", "research", "task", "analytics", "pdf"}

AGENTS == {"orchestrator"} \cup Workers

END == "END"

\* Agent names a parsed decision or a caller's delegation can carry: the
\* registered names and one name that is not registered (the keyword
\* fallback writes its names in upper case).
AgentLabels == AGENTS \cup {"unknown"}

\* add_node: the graph's nodes.
WorkerNodes == {"calendar", "email", "research", "task_agent", "analytics", "pdf"}

\* A path map that also leads back to the orchestrator.
EdgeMap_with_orchestrator ==
    [l \in {"orchestrator", "calendar", "email", "research", "task", "analytics",
            "pdf", "synthesizer", END} |->
       IF l = "task" THEN "task_agent" ELSE l]

\* The path map given to add_conditional_edges, the same for the
\* orchestrator and for every worker: routing label -> node.
EdgeMap == [l \in {"calendar", "email", "research", "task", "analytics", "pdf",
                   "synthesizer", END} |->
              IF l = "task" THEN "task_agent" ELSE l]

\* A routing function's label is looked up in the path map; a label the map
\* does not hold has no edge, and the run ends with the lookup's exception.
FollowEdge(label) == IF label \in DOMAIN EdgeMap THEN EdgeMap[label] ELSE "aborted"

\* The status values a worker's process() returns.
WorkerStatuses(n) ==
    CASE n = "calendar" -> {"success", "needs_clarification", "error"}
      [] n = "email" -> {"success", "needs_clarification", "error"}
      [] n = "pdf" -> {"success", "needs_clarification"}
      [] OTHER -> {"success"}

\* The registered name of the agent a worker node runs.
AgentOfNode(n) == IF n = "task_agent" THEN "task" ELSE n

(***************************************************************************)
(* orchestrator.py: the router's decision.                                 *)
(***************************************************************************)
\* priority: 1 = highest; two levels let a plan be listed out of order.
Priorities == {1, 2}

Delegation == [agent : AgentLabels \cup {""}, priority : Priorities]

Plans == UNION {[1..n -> Delegation] : n \in 0..MaxPlan}

\* delegations.sort(key=priority): a stable sort.
SortByPriority(delegations) ==
    SelectSeq(delegations, LAMBDA d : d.priority = 1)
      \o SelectSeq(delegations, LAMBDA d : d.priority = 2)

\* The keys of agent_registry, in the order of the dictionary.
agent_registry == <<"calendar", "email", "research", "task", "analytics", "pdf">>

\* A fallback without the default delegation.
_fallback_analysis_without_default(matches) ==
    LET matching_agents == SelectSeq(agent_registry, LAMBDA a : a \in matches)
    IN [needs_clarification |-> FALSE,
        delegations |->
          [i \in 1..Len(matching_agents) |->
             [agent |-> Upper(matching_agents[i]), priority |-> 1]]]

\* _fallback_analysis; `matches` are the registry keys one of whose keywords
\* occurs in the task.
_fallback_analysis(matches) ==
    LET matching_agents == SelectSeq(agent_registry, LAMBDA a : a \in matches)
    IN [needs_clarification |-> FALSE,
        delegations |->
          IF matching_agents = <<>>
          THEN <<[agent |-> "RESEARCH", priority |-> 1]>>
          ELSE [i \in 1..Len(matching_agents) |->
                  [agent |-> Upper(matching_agents[i]), priority |-> 1]]]

\* The decisions MasterOrchestrator.process works on: the JSON object of the
\* completion interface's answer, or the keyword fallback when the answer
\* holds no JSON object.
Decisions ==
    [needs_clarification : BOOLEAN, delegations : Plans]
      \cup {_fallback_analysis(matches) : matches \in SUBSET Workers}

\* MasterOrchestrator.process, from the decision to the response;
\* `delegations` is data['delegations'], which only a response without a
\* clarification request carries.
OrchestratorResponse(decision) ==
    IF decision.needs_clarification
    THEN [agent_name |-> "orchestrator", status |-> "needs_clarification",
          next_agent |-> None, delegations |-> <<>>]
    ELSE LET delegations == SortByPriority(decision.delegations)
             next == IF delegations /= <<>> /\ delegations[1].agent /= ""
                     THEN Lower(delegations[1].agent) ELSE None
         IN [agent_name |-> "orchestrator",
             status |-> IF next /= None THEN "delegated" ELSE "success",
             next_agent |-> next, delegations |-> delegations]

(***************************************************************************)
(* graph.py: routing functions.                                            *)
(***************************************************************************)
route_after_orchestrator(count, clarification, next) ==
    IF count >= max_iterations THEN "synthesizer"
    ELSE IF clarification THEN END
    ELSE IF next /= None /\ next \in AGENTS
         THEN (IF next = "task" THEN "task_agent" ELSE next)
    ELSE "synthesizer"

\* A bound check that lets one more step through.
route_after_worker_late_bound(count, current, context) ==
    IF count > max_iterations THEN "synthesizer"
    ELSE IF current = "pdf" THEN END
    ELSE IF context.remaining_delegations /= <<>>
            /\ context.remaining_delegations[1].agent \in AGENTS
         THEN (IF context.remaining_delegations[1].agent = "task"
               THEN "task_agent" ELSE context.remaining_delegations[1].agent)
    ELSE "synthesizer"

\* A routing function that looks at the remaining delegations before the
\* export worker's exit.
route_after_worker_delegations_first(count, current, context) ==
    IF count >= max_iterations THEN "synthesizer"
    ELSE IF context.remaining_delegations /= <<>>
            /\ context.remaining_delegations[1].agent \in AGENTS
         THEN (IF context.remaining_delegations[1].agent = "task"
               THEN "task_agent" ELSE context.remaining_delegations[1].agent)
    ELSE IF current = "pdf" THEN END
    ELSE "synthesizer"

route_after_worker(count, current, context) ==
    IF count >= max_iterations THEN "synthesizer"
    ELSE IF current = "pdf" THEN END
    ELSE IF context.remaining_delegations /= <<>>
            /\ context.remaining_delegations[1].agent \in AGENTS
         THEN (IF context.remaining_delegations[1].agent = "task"
               THEN "task_agent" ELSE context.remaining_delegations[1].agent)
    ELSE "synthesizer"

(***************************************************************************)
(* graph.py: the nodes.                                                    *)
(***************************************************************************)
\* orchestrator_node followed by the conditional edge out of it.
OrchestratorStep ==
    /\ node = "orchestrator"
    /\ \E decision \in Decisions :
         LET response == OrchestratorResponse(decision)
             count == iteration_count + 1
             needed == (response.status = "needs_clarification")
         IN /\ messages' = Append(messages, response.agent_name)
            /\ results' = Append(results, [agent_name |-> response.agent_name,
                                           status |-> response.status,
                                           delegations |-> response.delegations])
            /\ current_agent' = "orchestrator"
            /\ next_agent' = response.next_agent
            /\ user_clarification_needed' = needed
            /\ iteration_count' = count
            /\ node' = FollowEdge(route_after_orchestrator(count, needed,
                                                           response.next_agent))
    /\ steps' = [steps EXCEPT !.router = @ + 1]
    /\ UNCHANGED <<task_context, max_iterations, agentVars, pureVars>>

\* A worker node (calendar_node ... pdf_node): process(), then
\* _update_state_with_response, then the conditional edge out of the worker.
WorkerStep ==
    /\ node \in WorkerNodes
    /\ \E status \in WorkerStatuses(AgentOfNode(node)) :
         LET count == iteration_count + 1
         IN /\ messages' = Append(messages, AgentOfNode(node))
            /\ results' = Append(results, [agent_name |-> AgentOfNode(node),
                                           status |-> status])
            /\ current_agent' = AgentOfNode(node)
            /\ next_agent' = None
            /\ iteration_count' = count
            /\ node' = FollowEdge(route_after_worker(count, AgentOfNode(node),
                                                     task_context))
    /\ steps' = [steps EXCEPT !.worker = @ + 1]
    /\ UNCHANGED <<user_clarification_needed, task_context, max_iterations,
                   agentVars, pureVars>>

\* A failing worker node that leaves its message behind.
WorkerRaises_after_message ==
    /\ node \in WorkerNodes
    /\ messages' = Append(messages, AgentOfNode(node))
    /\ node' = "raised"
    /\ UNCHANGED <<iteration_count, results, current_agent, next_agent,
                   user_clarification_needed, task_context, max_iterations, steps,
                   agentVars, pureVars>>

\* A worker node whose process() raises (the completion interface fails
\* inside _call_llm, which catches nothing): the node returns no state and
\* the run ends with the exception.
WorkerRaises ==
    /\ node \in WorkerNodes
    /\ node' = "raised"
    /\ UNCHANGED <<iteration_count, results, messages, current_agent, next_agent,
                   user_clarification_needed, task_context, max_iterations, steps,
                   agentVars, pureVars>>

\* synthesizer_node, then the edge synthesizer -> END.
SynthesizerStep ==
    /\ node = "synthesizer"
    /\ messages' = Append(messages, "synthesizer")
    /\ current_agent' = "synthesizer"
    /\ iteration_count' = iteration_count + 1
    /\ node' = END
    /\ steps' = [steps EXCEPT !.synthesizer = @ + 1]
    /\ UNCHANGED <<results, next_agent, user_clarification_needed, task_context,
                   max_iterations, agentVars, pureVars>>

\* The remaining_delegations a caller can supply in the context; the code
\* reads only the first entry.
RemainingChoices ==
    {<<>>} \cup {<<[agent |-> a]>> : a \in AgentLabels}
           \cup {<<[agent |-> a], [agent |-> "email"]>> : a \in AgentLabels}

(***************************************************************************)
(* calendar_agent.py: attendees.                                           *)
(*                                                                         *)
(* A missing dictionary key and a None value are both None here; a         *)
(* dictionary that may be absent (the pending event, a cached check) is a  *)
(* sequence of length 0 or 1.                                              *)
(***************************************************************************)
Att(n, e) == [name |-> n, email |-> e]

\* next(att for att in merged if ...): index of the first match, 0 for none.
FirstIndex(hits) ==
    IF hits = {} THEN 0 ELSE CHOOSE i \in hits : \A j \in hits : i <= j

\* An email comparison that tells upper case from lower case.
SameEmail_case_sensitive(stored, email) == stored = email

\* Line 727: (att.get("email") or "").lower() == email.lower()
SameEmail(stored, email) == Lower(stored) = Lower(email)

\* One pass of the loop of _merge_attendees.
MergeAttendee(merged, attendee) ==
    LET name == attendee.name
        email == attendee.email
        byEmail == FirstIndex({i \in 1..Len(merged) :
                                 /\ merged[i].email /= None
                                 /\ SameEmail(merged[i].email, email)})
        byName == FirstIndex({i \in 1..Len(merged) :
                                /\ merged[i].name /= None
                                /\ Lower(merged[i].name) = Lower(name)})
        name_only == {i \in 1..Len(merged) :
                        merged[i].name /= None /\ merged[i].email = None}
        email_only == {i \in 1..Len(merged) :
                        merged[i].email /= None /\ merged[i].name = None}
    IN IF name = None /\ email = None THEN merged
       ELSE IF email /= None
       THEN IF byEmail /= 0
            THEN (IF name /= None /\ merged[byEmail].name = None
                  THEN [merged EXCEPT ![byEmail].name = name]
                  ELSE merged)
            ELSE IF name = None /\ Cardinality(name_only) = 1
            THEN [merged EXCEPT ![CHOOSE i \in name_only : TRUE].email = email]
            ELSE IF name /= None /\ byName /= 0
            THEN (IF merged[byName].email = None
                  THEN [merged EXCEPT ![byName].email = email]
                  ELSE merged)
            ELSE Append(merged, Att(name, email))
       ELSE IF byName /= 0 THEN merged
       ELSE IF Cardinality(email_only) = 1
       THEN [merged EXCEPT ![CHOOSE i \in email_only : TRUE].name = name]
       ELSE Append(merged, Att(name, None))

RECURSIVE MergeLoop(_, _)
MergeLoop(merged, new) ==
    IF new = <<>> THEN merged
    ELSE MergeLoop(MergeAttendee(merged, Head(new)), Tail(new))

_merge_attendees(existing, new) ==
    MergeLoop(SelectSeq(existing, LAMBDA a : a.name /= None \/ a.email /= None), new)

(***************************************************************************)
(* calendar_agent.py: what the extractors find in one utterance.           *)
(*                                                                         *)
(* An utterance is the record of the extractors' results on its text:      *)
(*   confirm  _is_confirmation          intent  _is_schedule_request       *)
(*   cancel   the text is one of the cancellation words                    *)
(*   title    a labelled title          free    unlabelled free text       *)
(*   date, time  _extract_datetime      email   _extract_email             *)
(*   name     _extract_attendee_name                                       *)
(***************************************************************************)
Utterance(confirm, intent, cancel, title, free, date, time, email, name) ==
    [confirm |-> confirm, intent |-> intent, cancel |-> cancel, title |-> title,
     free |-> free, date |-> date, time |-> time, email |-> email, name |-> name]

\* The texts of the model, each with what the extractors find in it.
\* A cancellation word ("cancel", "no", "stop") is no confirmation and no
\* schedule request, holds no email, date or time, and
\* _extract_attendee_name returns the word itself as a bare name. Free text
\* is a title candidate only when nothing else is found in it.
Utterances ==
    {\* "Schedule a call with Dana on <d1> at <t1>"
     Utterance(FALSE, TRUE, FALSE, None, None, "d1", "t1", None, "n1"),
     \* "Schedule a call with Dana"
     Utterance(FALSE, TRUE, FALSE, None, None, None, None, None, "n1"),
     \* "title: T"
     Utterance(FALSE, FALSE, FALSE, "T", None, None, None, None, None),
     \* "dana@x.com"
     Utterance(FALSE, FALSE, FALSE, None, None, None, None, "e1", None),
     \* "at <t2>"
     Utterance(FALSE, FALSE, FALSE, None, None, None, "t2", None, None),
     \* "confirm"
     Utterance(TRUE, FALSE, FALSE, None, None, None, None, None, None),
     \* "yes, at <t2>"
     Utterance(TRUE, FALSE, FALSE, None, None, None, "t2", None, None),
     \* "cancel"
     Utterance(FALSE, FALSE, TRUE, None, None, None, None, None, "cancel")}

\* _extract_attendees on a text without "Name <email>" pairs: the emails
\* found, then the single name.
ExtractAttendees(u) ==
    (IF u.email /= None THEN <<Att(None, u.email)>> ELSE <<>>)
      \o (IF u.name /= None THEN <<Att(u.name, None)>> ELSE <<>>)

(***************************************************************************)
(* calendar_agent.py: the details dictionary.                              *)
(***************************************************************************)
DEFAULT_DURATION == 60
TTL_MINUTES == 5

EmptyDetails ==
    [title |-> None, date |-> None, time |-> None, duration_minutes |-> None,
     attendee_name |-> None, attendee_email |-> None, attendees |-> <<>>,
     availability_checked |-> <<>>, confirmation_snapshot |-> <<>>]

\* int(details.get("duration_minutes") or 60)
Duration(d) == IF d.duration_minutes = None THEN DEFAULT_DURATION
               ELSE d.duration_minutes

_apply_extracted_fields(details, u, overwrite) ==
    [details EXCEPT
       !.attendees = IF ExtractAttendees(u) /= <<>>
                     THEN _merge_attendees(@, ExtractAttendees(u)) ELSE @,
       !.attendee_email = IF u.email /= None /\ (overwrite \/ @ = None)
                          THEN u.email ELSE @,
       !.attendee_name = IF u.name /= None /\ (overwrite \/ @ = None)
                         THEN u.name ELSE @,
       !.title = IF u.title /= None /\ (overwrite \/ @ = None) THEN u.title
                 ELSE IF @ = None /\ u.free /= None /\ u.email = None
                         /\ u.date = None /\ u.time = None
                         /\ ~u.confirm /\ u.name = None
                 THEN u.free
                 ELSE @,
       !.date = IF u.date /= None /\ (overwrite \/ @ = None) THEN u.date ELSE @,
       !.time = IF u.time /= None /\ (overwrite \/ @ = None) THEN u.time ELSE @]

\* _extract_details_from_history over the user messages, the new one
\* included, kept as a fold: `history` is <<>> while no user message has
\* scheduling intent, and else <<details>> replayed from the last such message.
HistoryAfter(h, u) ==
    IF u.intent THEN <<_apply_extracted_fields(EmptyDetails, u, FALSE)>>
    ELSE IF h /= <<>> THEN <<_apply_extracted_fields(h[1], u, FALSE)>>
    ELSE <<>>

\* The dictionary _extract_details_from_history returns ({} is EmptyDetails).
HistoryDetails(h) == IF h = <<>> THEN EmptyDetails ELSE h[1]

_merge_missing_details(base, incoming) ==
    [base EXCEPT
       !.title = IF @ = None THEN incoming.title ELSE @,
       !.date = IF @ = None THEN incoming.date ELSE @,
       !.time = IF @ = None THEN incoming.time ELSE @,
       !.attendee_name = IF @ = None THEN incoming.attendee_name ELSE @,
       !.attendee_email = IF @ = None THEN incoming.attendee_email ELSE @,
       !.attendees = IF @ = <<>> THEN incoming.attendees ELSE @]

Missing(field, names) == [field |-> field, names |-> names]

\* A list of missing fields that forgets the date.
_missing_required_fields_without_date(details) ==
    LET base == (IF details.title = None THEN <<Missing("title", <<>>)>> ELSE <<>>)
                  \o (IF details.time = None THEN <<Missing("time", <<>>)>> ELSE <<>>)
        missing_emails == SelectSeq(details.attendees, LAMBDA a : a.email = None)
    IN IF details.attendees = <<>>
       THEN Append(base, Missing("attendee email", <<>>))
       ELSE IF missing_emails /= <<>>
       THEN Append(base, Missing("attendee email for",
                     [i \in 1..Len(missing_emails) |-> missing_emails[i].name]))
       ELSE base

_missing_required_fields(details) ==
    LET base == (IF details.title = None THEN <<Missing("title", <<>>)>> ELSE <<>>)
                  \o (IF details.date = None THEN <<Missing("date", <<>>)>> ELSE <<>>)
                  \o (IF details.time = None THEN <<Missing("time", <<>>)>> ELSE <<>>)
        missing_emails == SelectSeq(details.attendees, LAMBDA a : a.email = None)
    IN IF details.attendees = <<>>
       THEN Append(base, Missing("attendee email", <<>>))
       ELSE IF missing_emails /= <<>>
       THEN Append(base, Missing("attendee email for",
                     [i \in 1..Len(missing_emails) |-> missing_emails[i].name]))
       ELSE base

\* A changed-fields test that overlooks the time of day.
_time_fields_changed_date_only(details, prev_date, prev_time, prev_duration) ==
    \/ details.date /= prev_date
    \/ Duration(details) /= prev_duration

_time_fields_changed(details, prev_date, prev_time, prev_duration) ==
    \/ details.date /= prev_date
    \/ details.time /= prev_time
    \/ Duration(details) /= prev_duration

\* The record written under "availability_checked" / "confirmation_snapshot".
Check(details, status, t) ==
    [date |-> details.date, time |-> details.time,
     duration_minutes |-> Duration(details), status |-> status, checked_at |-> t]

\* A freshness test that never lets a check expire.
_availability_check_is_fresh_unexpiring(details, t) ==
    /\ details.availability_checked /= <<>>
    /\ LET check == details.availability_checked[1]
       IN /\ check.date = details.date
          /\ check.time = details.time
          /\ check.duration_minutes = Duration(details)

_availability_check_is_fresh(details, t) ==
    /\ details.availability_checked /= <<>>
    /\ LET check == details.availability_checked[1]
       IN /\ check.date = details.date
          /\ check.time = details.time
          /\ check.duration_minutes = Duration(details)
          /\ t - check.checked_at <= TTL_MINUTES

\* _build_event_times: "ok", or the ValueError it raises.
_build_event_times(details, tz) ==
    IF details.date = None \/ details.time = None THEN "ValueError"
    ELSE IF ~tz THEN "ValueError"
    ELSE "ok"

(***************************************************************************)
(* calendar_agent.py: CalendarAgent.process on the pending-event path.     *)
(***************************************************************************)
\* Lines 120-122: a changed date, time or duration drops the cached check
\* and the snapshot; `before` is the dictionary the previous values are read from.
DropChecksIfTimeChanged(details, before) ==
    IF _time_fields_changed(details, before.date, before.time, Duration(before))
    THEN [details EXCEPT !.availability_checked = <<>>,
                         !.confirmation_snapshot = <<>>]
    ELSE details

\* Lines 123-125: an email found in the text becomes the attendee email.
SetTextEmail(details, u) ==
    IF u.email /= None THEN [details EXCEPT !.attendee_email = u.email]
    ELSE details

\* Lines 127-133: the single attendee joins the list.
JoinSingleAttendee(details) ==
    IF details.attendee_name /= None \/ details.attendee_email /= None
    THEN [details EXCEPT
            !.attendees = _merge_attendees(@, <<Att(details.attendee_name,
                                                    details.attendee_email)>>)]
    ELSE details

\* Lines 134-138: a list of one attendee becomes the single attendee.
SingleAttendeeFromList(details) ==
    IF Len(details.attendees) = 1
    THEN [details EXCEPT !.attendee_name = details.attendees[1].name,
                         !.attendee_email = details.attendees[1].email]
    ELSE details

\* Lines 114-115: the stored details, completed from the history.
BeforeText(pending, history_details) ==
    _merge_missing_details(IF pending /= <<>> THEN pending[1] ELSE EmptyDetails,
                           history_details)

\* Lines 114-138: the details the first _set_pending_event stores.
MergedDetails(pending, history_details, u) ==
    SingleAttendeeFromList(JoinSingleAttendee(SetTextEmail(
      DropChecksIfTimeChanged(
        _apply_extracted_fields(BeforeText(pending, history_details), u, TRUE),
        BeforeText(pending, history_details)),
      u)))

\* What the rest of a turn does: `write` is the last write to the store after
\* the first one ("none", "set" of `details`, or "clear"), `details` the local
\* dictionary at the return, `checked` the answer of has_calendar_conflict
\* ("none" when it was not called).
Outcome(write, details, status, message, checked, create_called, created) ==
    [write |-> write, details |-> details, status |-> status, message |-> message,
     checked |-> checked, create_called |-> create_called, created |-> created]

\* A send routine that forgets the pending event when the booking fails.
_send_pending_event_dropping(details, write, checked, tz, create) ==
    IF _build_event_times(details, tz) = "ValueError"
    THEN Outcome("set", details, "needs_clarification", "time_error",
                 checked, FALSE, FALSE)
    ELSE IF create = "CalendarSendError"
    THEN Outcome("clear", details, "error", "create_error", checked, TRUE, FALSE)
    ELSE Outcome("clear", details, "success", "created", checked, TRUE, TRUE)

\* _send_pending_event; `write` and `checked` are what the caller did before.
_send_pending_event(details, write, checked, tz, create) ==
    IF _build_event_times(details, tz) = "ValueError"
    THEN Outcome("set", details, "needs_clarification", "time_error",
                 checked, FALSE, FALSE)
    ELSE IF create = "CalendarSendError"
    THEN Outcome(write, details, "error", "create_error", checked, TRUE, FALSE)
    ELSE Outcome("clear", details, "success", "created", checked, TRUE, TRUE)

\* A conflict test that lets every stored check pass.
IsConflict_never(availability) == FALSE

\* Line 153: the stored check reports a conflict.
IsConflict(availability) ==
    availability /= <<>> /\ availability[1].status = "conflict"

\* Lines 144-199: a turn recognised as a confirmation.
ConfirmationTurn(details, t, tz, conflict, create) ==
    LET availability == details.availability_checked
        conflicting == [details EXCEPT
                          !.availability_checked = <<Check(details, "conflict", t)>>]
        clear == [details EXCEPT
                    !.availability_checked = <<Check(details, "clear", t)>>]
    IN IF _missing_required_fields(details) /= <<>>
       THEN Outcome("none", details, "needs_clarification", "provide",
                    "none", FALSE, FALSE)
       ELSE IF IsConflict(availability)
       THEN Outcome("none", details, "needs_clarification", "conflict",
                    "none", FALSE, FALSE)
       ELSE IF availability = <<>>
       THEN IF _build_event_times(details, tz) = "ValueError"
            THEN _send_pending_event(details, "none", "none", tz, create)
            ELSE IF conflict = "CalendarSendError"
            THEN Outcome("none", details, "error", "check_error",
                         conflict, FALSE, FALSE)
            ELSE IF conflict = "busy"
            THEN Outcome("set", conflicting, "needs_clarification", "conflict",
                         conflict, FALSE, FALSE)
            ELSE _send_pending_event(clear, "set", conflict, tz, create)
       ELSE _send_pending_event(details, "none", "none", tz, create)

\* A collecting turn that keeps the snapshot when it finds a conflict.
CollectingTurn_keeping_snapshot(details, t, tz, conflict) ==
    LET conflicting == [details EXCEPT
                          !.availability_checked = <<Check(details, "conflict", t)>>]
        clear == [details EXCEPT
                    !.availability_checked = <<Check(details, "clear", t)>>,
                    !.confirmation_snapshot = <<Check(details, "clear", t)>>]
    IN IF _missing_required_fields(details) /= <<>>
       THEN Outcome("none", details, "needs_clarification", "provide",
                    "none", FALSE, FALSE)
       ELSE IF _build_event_times(details, tz) = "ValueError"
       THEN Outcome("none", details, "needs_clarification", "confirm_details",
                    "none", FALSE, FALSE)
       ELSE IF _availability_check_is_fresh(details, t)
       THEN Outcome("none", details, "needs_clarification", "confirm_details",
                    "none", FALSE, FALSE)
       ELSE IF conflict = "CalendarSendError"
       THEN Outcome("none", details, "error", "check_error", conflict, FALSE, FALSE)
       ELSE IF conflict = "busy"
       THEN Outcome("set", conflicting, "needs_clarification", "conflict",
                    conflict, FALSE, FALSE)
       ELSE Outcome("set", clear, "needs_clarification", "confirm_details",
                    conflict, FALSE, FALSE)

\* Lines 201-264: any other turn.
CollectingTurn(details, t, tz, conflict) ==
    LET conflicting == [details EXCEPT
                          !.availability_checked = <<Check(details, "conflict", t)>>,
                          !.confirmation_snapshot = <<>>]
        clear == [details EXCEPT
                    !.availability_checked = <<Check(details, "clear", t)>>,
                    !.confirmation_snapshot = <<Check(details, "clear", t)>>]
    IN IF _missing_required_fields(details) /= <<>>
       THEN Outcome("none", details, "needs_clarification", "provide",
                    "none", FALSE, FALSE)
       ELSE IF _build_event_times(details, tz) = "ValueError"
       THEN Outcome("none", details, "needs_clarification", "confirm_details",
                    "none", FALSE, FALSE)
       ELSE IF _availability_check_is_fresh(details, t)
       THEN Outcome("none", details, "needs_clarification", "confirm_details",
                    "none", FALSE, FALSE)
       ELSE IF conflict = "CalendarSendError"
       THEN Outcome("none", details, "error", "check_error", conflict, FALSE, FALSE)
       ELSE IF conflict = "busy"
       THEN Outcome("set", conflicting, "needs_clarification", "conflict",
                    conflict, FALSE, FALSE)
       ELSE Outcome("set", clear, "needs_clarification", "confirm_details",
                    conflict, FALSE, FALSE)

\* A dispatch that takes every turn for a confirmation.
Decide_unconfirmed(details, u, t, tz, conflict, create) ==
    ConfirmationTurn(details, t, tz, conflict, create)

\* Lines 142-264, after the first _set_pending_event.
Decide(details, u, t, tz, conflict, create) ==
    IF u.confirm THEN ConfirmationTurn(details, t, tz, conflict, create)
    ELSE CollectingTurn(details, t, tz, conflict)

\* The store after a turn whose first write stored `details`.
StoreAfter(details, outcome) ==
    IF outcome.write = "clear" THEN <<>>
    ELSE IF outcome.write = "set" THEN <<outcome.details>>
    ELSE <<details>>

\* Line 113: the turn takes the pending-event path.
PendingPath(pending, history_details, u) ==
    pending /= <<>> \/ u.intent \/ history_details /= EmptyDetails

ConflictResults == {"free", "busy", "CalendarSendError"}
CreateResults == {"ok", "CalendarSendError"}

\* The requests handled at the same time, and one request before it arrives.
Requests == {1, 2}

Idle ==
    [pc |-> "idle", u |-> <<>>, history |-> <<>>, pending |-> <<>>, details |-> <<>>]

NoRequests == [r \in Requests |-> Idle]

\* The record of a turn: `stored` is the status of the availability check
\* stored before the turn, `event` what the delivery collaborator was called with.
NoTurn ==
    [agent |-> "none", confirm |-> FALSE, cancel |-> FALSE, intent |-> FALSE,
     had_pending |-> FALSE, stored |-> "none", time_changed |-> FALSE,
     event |-> <<>>, status |-> "none", message |-> "none", asked |-> <<>>,
     shown |-> <<>>,
     checked |-> "none", called |-> FALSE, delivered |-> FALSE]

\* The status of the availability check of a stored pending event.
StoredStatus(pending) ==
    IF pending = <<>> THEN "none"
    ELSE IF pending[1].availability_checked = <<>> THEN "none"
    ELSE pending[1].availability_checked[1].status

\* The proposed window of an event.
Window(details) ==
    [date |-> details.date, time |-> details.time,
     duration_minutes |-> Duration(details)]

\* The busy window after a turn: the window a conflict check of this turn
\* found busy, else the one found before while the same pending event keeps it.
BusyAfter(busy, pending, details, checked) ==
    IF checked = "busy" THEN <<Window(details)>>
    ELSE IF pending /= <<>> /\ busy = <<Window(details)>> THEN busy
    ELSE <<>>

\* CalendarAgent.process with a conversation_id, after the message joined the
\* history: the history, the stored pending event and the record of the turn
\* at its return.
CalendarAgent_process(pending, h, u, t, tz, conflict, create, busy) ==
    LET history_after == HistoryAfter(h, u)
        history_details == HistoryDetails(history_after)
        before == BeforeText(pending, history_details)
        details == MergedDetails(pending, history_details, u)
        outcome == Decide(details, u, t, tz, conflict, create)
    IN IF PendingPath(pending, history_details, u)
       THEN [history |-> history_after,
             pending |-> StoreAfter(details, outcome),
             busy |-> BusyAfter(busy, pending, outcome.details, outcome.checked),
             turn |-> [agent |-> "calendar", confirm |-> u.confirm,
                       cancel |-> u.cancel, intent |-> u.intent,
                       had_pending |-> pending /= <<>>,
                       stored |-> StoredStatus(pending),
                       time_changed |->
                         _time_fields_changed(
                           _apply_extracted_fields(before, u, TRUE),
                           before.date, before.time, Duration(before)),
                       event |-> IF outcome.create_called
                                 THEN <<outcome.details>> ELSE <<>>,
                       status |-> outcome.status, message |-> outcome.message,
                       shown |-> <<>>,
                       asked |-> IF outcome.message = "provide"
                                 THEN _missing_required_fields(outcome.details)
                                 ELSE <<>>,
                       checked |-> outcome.checked,
                       called |-> outcome.create_called,
                       delivered |-> outcome.created]]
       ELSE [history |-> history_after,
             pending |-> pending,
             busy |-> busy,
             turn |-> [NoTurn EXCEPT !.agent = "calendar",
                                     !.confirm = u.confirm,
                                     !.cancel = u.cancel,
                                     !.intent = u.intent,
                                     !.status = "success",
                                     !.message = "llm"]]

\* One user turn handled by the calendar agent.
CalendarTurn ==
    /\ current_agent = "calendar"
    /\ \E u \in Utterances, conflict \in ConflictResults, create \in CreateResults :
         \E after \in {CalendarAgent_process(pending_event, history, u, now, tz_ok,
                                             conflict, create, busy_window)} :
           /\ history' = after.history
           /\ pending_event' = after.pending
           /\ last' = after.turn
           /\ busy_window' = after.busy
    /\ UNCHANGED <<pending_email, now, tz_ok, turns, flowVars, pureVars>>

(***************************************************************************)
(* email_agent.py.                                                         *)
(***************************************************************************)
\* The texts: one of the confirmation phrases, one of the cancellation
\* phrases, or anything else.
EmailTexts == {"confirm", "cancel", "other"}

\* The email_content of the completion interface's answer (or of the default).
EmailContents == [to : {None, "r1"}, subject : {None, "s1"}, body : {None, "b1"}]

SendResults == {"ok", "EmailSendError"}

\* A completeness test that asks for a body only.
CompleteEmail_body_only(content) == content.body /= None

\* Line 153: recipient, subject and body are all there.
CompleteEmail(content) ==
    content.to /= None /\ content.subject /= None /\ content.body /= None

\* EmailAgent.process: the stored pending email and the record of the turn
\* at its return.
EmailAgent_process(pending, text, content, send) ==
    LET turn == [NoTurn EXCEPT !.agent = "email",
                               !.confirm = (text = "confirm"),
                               !.cancel = (text = "cancel"),
                               !.had_pending = (pending /= <<>>)]
        complete == CompleteEmail(content)
    IN IF pending /= <<>> /\ text = "confirm"
       THEN \* _send_pending_email
            IF send = "EmailSendError"
            THEN [pending |-> pending,
                  turn |-> [turn EXCEPT !.status = "error",
                                        !.message = "send_error",
                                        !.event = pending,
                                        !.called = TRUE]]
            ELSE [pending |-> <<>>,
                  turn |-> [turn EXCEPT !.status = "success",
                                        !.message = "sent",
                                        !.event = pending,
                                        !.called = TRUE,
                                        !.delivered = TRUE]]
       ELSE IF pending /= <<>> /\ text = "cancel"
       THEN [pending |-> <<>>,
             turn |-> [turn EXCEPT !.status = "success",
                                   !.message = "cancel_send"]]
       ELSE [pending |-> IF complete THEN <<content>> ELSE pending,
             turn |-> [turn EXCEPT !.status = "success",
                                   \* lines 148-151: a draft with a body is
                                   \* displayed with the prompt to reply
                                   \* "send it"
                                   !.shown = IF content.body /= None
                                             THEN <<content>> ELSE <<>>,
                                   !.message = IF complete THEN "draft"
                                               ELSE "incomplete"]]

\* One user turn handled by the email agent.
EmailTurn ==
    /\ current_agent = "email"
    /\ \E text \in EmailTexts, content \in EmailContents, send \in SendResults :
         \E after \in {EmailAgent_process(pending_email, text, content, send)} :
           /\ pending_email' = after.pending
           /\ last' = after.turn
    /\ UNCHANGED <<pending_event, history, now, tz_ok, busy_window, turns, flowVars, pureVars>>

\* Time passes between turns, one TTL at a time: a check made at 0 is still
\* fresh at TTL_MINUTES and stale after that.
Tick ==
    /\ now < MaxTicks * TTL_MINUTES
    /\ now' = now + TTL_MINUTES
    /\ UNCHANGED <<pending_event, pending_email, history, tz_ok, last, busy_window,
                   turns, flowVars, pureVars>>

AgentsInit ==
    /\ pending_event = <<>>
    /\ pending_email = <<>>
    /\ history = <<>>
    /\ now = 0
    /\ tz_ok \in BOOLEAN
    /\ last = NoTurn
    /\ busy_window = <<>>
    /\ turns = NoRequests

\* No workflow run is modelled in the turn-level specification: every turn
\* of the conversation is delegated to the one worker current_agent names.
FlowIdle ==
    /\ node = END
    /\ iteration_count = 0
    /\ results = <<>>
    /\ messages = <<>>
    /\ current_agent \in {"calendar", "email"}
    /\ next_agent = None
    /\ user_clarification_needed = FALSE
    /\ task_context = [remaining_delegations |-> <<>>]
    /\ max_iterations = 0
    /\ steps = [router |-> 0, worker |-> 0, synthesizer |-> 0]

\* No pure function is called on its own in the other specifications.
PureIdle ==
    /\ att_list = <<>>
    /\ att_new = <<>>
    /\ att_twice = <<>>
    /\ att_orders = {}
    /\ merges = 0
    /\ fallback_task = <<>>
    /\ fallback_decision = <<>>

Init == AgentsInit /\ FlowIdle /\ PureIdle

Next == CalendarTurn \/ EmailTurn \/ Tick

Spec == Init /\ [][Next]_vars

(***************************************************************************)
(* graph.py: one workflow run.                                             *)
(***************************************************************************)
\* The workflow specification leaves the agents' stores as constructed.
AgentsQuiet ==
    /\ pending_event = <<>>
    /\ pending_email = <<>>
    /\ history = <<>>
    /\ now = 0
    /\ tz_ok = TRUE
    /\ last = NoTurn
    /\ busy_window = <<>>
    /\ turns = NoRequests

\* run_agent_workflow: the initial state of a run.
FlowInit ==
    /\ node = "orchestrator"
    /\ iteration_count = 0
    /\ results = <<>>
    /\ messages = <<>>
    /\ current_agent = ""
    /\ next_agent = None
    /\ user_clarification_needed = FALSE
    /\ task_context \in [remaining_delegations : RemainingChoices]
    /\ max_iterations \in 0..MaxConfigured
    /\ steps = [router |-> 0, worker |-> 0, synthesizer |-> 0]

FlowNext == OrchestratorStep \/ WorkerStep \/ WorkerRaises \/ SynthesizerStep

InitFlow == FlowInit /\ AgentsQuiet /\ PureIdle

SpecFlow == InitFlow /\ [][FlowNext]_vars

\* The graph runtime runs the next node whenever there is one.
SpecFlowFair == SpecFlow /\ WF_vars(FlowNext)

(***************************************************************************)
(* Two requests of one conversation in flight at the same time.            *)
(*                                                                         *)
(* chat.py and websocket.py hand every request to its own workflow run;    *)
(* the runs share the conversation's metadata, which _get_pending_event    *)
(* and _set_pending_event read and write in separate database sessions.    *)
(* A request is cut at its database accesses.                              *)
(***************************************************************************)
\* "Schedule a call with Dana on <d1> at <t1>": the turn that opened the
\* pending event before the two requests arrive.
Opening == Utterance(FALSE, TRUE, FALSE, None, None, "d1", "t1", None, "n1")

\* The texts of the two requests: each gives one field and asks nothing else.
FieldTexts == {u \in Utterances : ~u.confirm /\ ~u.intent /\ ~u.cancel}

\* chat.py lines 60-78: the user message is committed, then the history of
\* the conversation is read.
Receive ==
    \E r \in Requests, u \in FieldTexts :
      /\ turns[r].pc = "idle"
      /\ history' = HistoryAfter(history, u)
      /\ turns' = [turns EXCEPT ![r] = [@ EXCEPT !.pc = "received", !.u = <<u>>,
                                                 !.history = history']]
      /\ UNCHANGED <<pending_event, pending_email, now, tz_ok, last, busy_window,
                     flowVars, pureVars>>

\* calendar_agent.py line 106: _get_pending_event.
ReadPending ==
    \E r \in Requests :
      /\ turns[r].pc = "received"
      /\ turns' = [turns EXCEPT ![r] = [@ EXCEPT !.pc = "read",
                                                 !.pending = pending_event]]
      /\ UNCHANGED <<pending_event, pending_email, history, now, tz_ok, last,
                     busy_window, flowVars, pureVars>>

\* calendar_agent.py lines 107-140: the merge and the first _set_pending_event.
StoreMerged ==
    \E r \in Requests :
      /\ turns[r].pc = "read"
      /\ \E details \in {MergedDetails(turns[r].pending,
                                        HistoryDetails(turns[r].history),
                                        turns[r].u[1])} :
           /\ pending_event' = <<details>>
           /\ turns' = [turns EXCEPT ![r] = [@ EXCEPT !.pc = "stored",
                                                      !.details = <<details>>]]
      /\ UNCHANGED <<pending_email, history, now, tz_ok, last, busy_window, flowVars, pureVars>>

\* calendar_agent.py lines 142-264: the rest of the turn, with its last write.
FinishTurn ==
    \E r \in Requests, conflict \in ConflictResults, create \in CreateResults :
      /\ turns[r].pc = "stored"
      /\ \E outcome \in {Decide(turns[r].details[1], turns[r].u[1], now, tz_ok,
                                  conflict, create)} :
           /\ pending_event' = IF outcome.write = "clear" THEN <<>>
                                ELSE IF outcome.write = "set" THEN <<outcome.details>>
                                ELSE pending_event
           /\ turns' = [turns EXCEPT ![r] = [@ EXCEPT !.pc = "done",
                                                      !.details = <<outcome.details>>]]
      /\ UNCHANGED <<pending_email, history, now, tz_ok, last, busy_window, flowVars, pureVars>>

\* The conversation after its opening turn, with the two requests to come.
ConcInit ==
    /\ history = HistoryAfter(<<>>, Opening)
    /\ pending_event = <<MergedDetails(<<>>, HistoryDetails(history), Opening)>>
    /\ pending_email = <<>>
    /\ now = 0
    /\ tz_ok = TRUE
    /\ last = NoTurn
    /\ busy_window = <<>>
    /\ turns = NoRequests
    /\ FlowIdle
    /\ current_agent = "calendar"
    /\ PureIdle

ConcNext == Receive \/ ReadPending \/ StoreMerged \/ FinishTurn

SpecConc == ConcInit /\ [][ConcNext]_vars

(***************************************************************************)
(* calendar_agent.py: _merge_attendees called on its own.                  *)
(***************************************************************************)
\* The attendee entries of the model: a name or none, an email or none
\* ("E1" is "e1" in upper case).
Entries == [name : {None, "n1", "n2"}, email : {None, "e1", "E1", "e2"}]

\* The lists handed to _merge_attendees as `new`: up to two entries.
IncomingLists ==
    {<<>>} \cup {<<a>> : a \in Entries} \cup {<<a, b>> : a, b \in Entries}

\* The orders in which the entries of a list can be merged.
Orders(list) ==
    {[i \in 1..Len(list) |-> list[p[i]]] :
       p \in {q \in [1..Len(list) -> 1..Len(list)] :
                \A i, j \in 1..Len(list) : q[i] = q[j] => i = j}}

\* One call of _merge_attendees on the list built so far, together with
\* the same call repeated on its result and with the calls on the other
\* orders of the incoming list.
MergeStep ==
    /\ merges < MaxMerges
    /\ \E new \in IncomingLists :
         \E merged \in {_merge_attendees(att_list, new)} :
           /\ att_list' = merged
           /\ att_new' = new
           /\ att_twice' = _merge_attendees(merged, new)
           /\ att_orders' = {_merge_attendees(att_list, order) : order \in Orders(new)}
    /\ merges' = merges + 1
    /\ UNCHANGED <<fallback_task, fallback_decision, flowVars, agentVars>>

\* The attendee list of a new pending event is empty.
MergeInit ==
    /\ PureIdle
    /\ AgentsQuiet
    /\ FlowIdle
    /\ current_agent = "calendar"

SpecMerge == MergeInit /\ [][MergeStep]_vars

(***************************************************************************)
(* orchestrator.py: _fallback_analysis called on a task text.              *)
(*                                                                         *)
(* A text is the sequence of its characters.                               *)
(***************************************************************************)
\* str.lower() on one character of the model's texts.
LowerChar(c) ==
    CASE c = "D" -> "d"
      [] c = "E" -> "e"
      [] c = "F" -> "f"
      [] c = "I" -> "i"
      [] c = "K" -> "k"
      [] c = "P" -> "p"
      [] OTHER -> c

\* task.lower()
LowerText(text) == [i \in 1..Len(text) |-> LowerChar(text[i])]

\* keyword in task_lower
Occurs(keyword, text) ==
    \E i \in 1..(Len(text) - Len(keyword) + 1) :
      SubSeq(text, i, i + Len(keyword) - 1) = keyword

\* agent_registry[...]['keywords']: of each list, the keywords that occur
\* in a text of the model (no other keyword of the table does).
keywords ==
    [a \in Workers |->
       CASE a = "calendar" -> {<<"t", "i", "m", "e">>, <<"b", "o", "o", "k">>}
         [] a = "email" -> {<<"e", "m", "a", "i", "l">>, <<"m", "a", "i", "l">>, <<"c", "c">>}
         [] a = "research" -> {<<"f", "i", "n", "d">>}
         [] a = "task" -> {<<"t", "o", "d", "o">>}
         [] a = "analytics" -> {<<"d", "a", "t", "a">>, <<"k", "p", "i">>}
         [] a = "pdf" -> {<<"p", "d", "f">>}]

\* The registry keys one of whose keywords occurs in the lowercased task.
KeywordMatches(task_text) ==
    {a \in Workers : \E keyword \in keywords[a] : Occurs(keyword, LowerText(task_text))}

\* The words the task texts of the model are made of.
Words ==
    {<<"E", "m", "a", "i", "l">>,
     <<"s", "o", "m", "e", "t", "i", "m", "e", "s">>,
     <<"m", "e", "t", "a", "d", "a", "t", "a">>,
     <<"s", "u", "c", "c", "e", "s", "s">>,
     <<"P", "D", "F">>,
     <<"t", "o", "d", "o">>,
     <<"h", "e", "l", "l", "o">>,
     <<"f", "i", "n", "d">>,
     <<"b", "o", "o", "k">>,
     <<"K", "P", "I">>}

\* The task texts: nothing, one word, or two words with a blank between.
Tasks ==
    {<<>>} \cup Words \cup {first \o <<" ">> \o second : first, second \in Words}

\* One call of _fallback_analysis.
Classify ==
    /\ \E text \in Tasks :
         /\ fallback_task' = text
         /\ fallback_decision' = <<_fallback_analysis(KeywordMatches(text))>>
    /\ UNCHANGED <<att_list, att_new, att_twice, att_orders, merges, flowVars,
                   agentVars>>

ClassifyInit ==
    /\ PureIdle
    /\ AgentsQuiet
    /\ FlowIdle
    /\ current_agent = "calendar"

SpecClassify == ClassifyInit /\ [][Classify]_vars

(***************************************************************************)
(* Claims about the workflow run.                                          *)
(***************************************************************************)
Last(seq) == seq[Len(seq)]

\* C5 (as stated): for every configured maximum, the router and worker
\* steps executed in a run never number more than MAX_AGENT_ITERATIONS.
C5_StepsWithinAnyMaximum ==
    steps.router + steps.worker <= max_iterations

\* C5 (amended): for every configured maximum of at least 1, the router and
\* worker steps executed in a run never number more than MAX_AGENT_ITERATIONS.
C5_StepsWithinMaximum ==
    max_iterations >= 1 => steps.router + steps.worker <= max_iterations

\* A run driven round a delegation cycle until the bound stops it.
C5_Witness ==
    /\ max_iterations = MaxConfigured
    /\ steps.router + steps.worker = max_iterations
    /\ steps.worker >= 2
    /\ node = END

\* C6: every run eventually reaches the end of the graph (Halt or
\* Synthesizer-Done) and stays there.
C6_RunTerminates == <>[](node = END)

\* The state right after a worker step whose outcome asks for clarification,
\* below the iteration bound.
AfterWorkerClarification ==
    /\ current_agent \in Workers
    /\ results /= <<>>
    /\ Last(results).agent_name = current_agent
    /\ Last(results).status = "needs_clarification"
    /\ iteration_count < max_iterations

\* C7: after a worker outcome with status needs_clarification, below the
\* bound, neither the Synthesizer nor another worker runs next.
C7_HaltsAfterWorkerClarification ==
    AfterWorkerClarification => node \notin WorkerNodes \cup {"synthesizer"}

(***************************************************************************)
(* Claims about the turns of the scheduling and messaging agents.          *)
(***************************************************************************)
\* The availability check carried by the event the booking was called with.
EventCheck == last.event[1].availability_checked

\* C1: create_calendar_event_details is called only on a turn recognised as a
\* confirmation, with no missing required field and with a stored
\* availability check of status clear whose date, time and duration are the
\* event's own.
C1_BookingOnlyWhenConfirmedAndClear ==
    (last.agent = "calendar" /\ last.called) =>
       /\ last.confirm
       /\ _missing_required_fields(last.event[1]) = <<>>
       /\ EventCheck /= <<>>
       /\ EventCheck[1].status = "clear"
       /\ EventCheck[1].date = last.event[1].date
       /\ EventCheck[1].time = last.event[1].time
       /\ EventCheck[1].duration_minutes = Duration(last.event[1])

\* C1 witness: a confirmation turn booked the event.
C1_Witness ==
    /\ last.agent = "calendar"
    /\ last.confirm
    /\ last.delivered
    /\ pending_event = <<>>

\* C2 (as stated): once a conflict check found the window busy, every
\* confirmation turn that follows while date, time and duration are unchanged
\* is refused and creates no event.
C2_RefusedWhileWindowUnchanged ==
    (last.agent = "calendar" /\ last.confirm /\ busy_window /= <<>>) =>
       /\ ~last.called
       /\ last.status = "needs_clarification"

\* C2 (amended): a conflict check that returns true stores a check of status
\* conflict and asks for another date/time; and a confirmation turn that
\* finds a stored check of status conflict for the unchanged date, time and
\* duration is refused, creates no event and leaves that check stored.
C2_RefusedWhileConflictStored ==
    last.agent = "calendar" =>
       /\ last.checked = "busy" =>
             /\ last.message = "conflict"
             /\ last.status = "needs_clarification"
             /\ ~last.called
             /\ StoredStatus(pending_event) = "conflict"
       /\ (last.confirm /\ last.stored = "conflict" /\ ~last.time_changed) =>
             /\ ~last.called
             /\ last.checked = "none"
             /\ last.status = "needs_clarification"
             /\ StoredStatus(pending_event) = "conflict"

\* C2 witness: a confirmation turn was refused because of the stored conflict.
C2_Witness ==
    /\ last.agent = "calendar"
    /\ last.confirm
    /\ last.stored = "conflict"
    /\ ~last.time_changed
    /\ last.message = "conflict"
    /\ busy_window /= <<>>

\* C3: an event is never created on the strength of an availability check
\* older than the TTL: on the turn that calls the booking, the check the
\* event carries was made at most TTL_MINUTES before.
C3_NoBookingOnStaleCheck ==
    (last.agent = "calendar" /\ last.called /\ EventCheck /= <<>>) =>
       now - EventCheck[1].checked_at <= TTL_MINUTES

\* C8: a cancellation turn while a PendingAction exists deletes it and
\* triggers no side effect, for the pending email and for the pending event.
C8_CancellationDeletesPending ==
    (last.cancel /\ last.had_pending) =>
       /\ ~last.called
       /\ last.agent = "email" => pending_email = <<>>
       /\ last.agent = "calendar" => pending_event = <<>>

CarriesWindow(stored, details) ==
    stored /= <<>> =>
       /\ stored[1].date = details.date
       /\ stored[1].time = details.time
       /\ stored[1].duration_minutes = Duration(details)

\* C10: a turn that changes date, time or duration removes the availability
\* check and the confirmation snapshot, so in every stored pending event a
\* check or snapshot carries the pending event's date, time and duration.
C10_ChecksCarryCurrentWindow ==
    pending_event /= <<>> =>
       /\ CarriesWindow(pending_event[1].availability_checked, pending_event[1])
       /\ CarriesWindow(pending_event[1].confirmation_snapshot, pending_event[1])
       /\ (last.agent = "calendar" /\ last.time_changed /\ last.checked = "none") =>
             /\ pending_event[1].availability_checked = <<>>
             /\ pending_event[1].confirmation_snapshot = <<>>

\* C10 witness: a turn changed the time of a pending event that held a check,
\* and the pending event is stored without check and snapshot.
C10_Witness ==
    /\ last.agent = "calendar"
    /\ last.time_changed
    /\ last.stored /= "none"
    /\ last.checked = "none"
    /\ pending_event /= <<>>
    /\ pending_event[1].time = "t2"
    /\ pending_event[1].availability_checked = <<>>

(***************************************************************************)
(* Claims about requests in flight at the same time.                       *)
(***************************************************************************)
\* The field a text gives is in the stored details.
Contributed(u, details) ==
    /\ u.title /= None => details.title = u.title
    /\ u.time /= None => details.time = u.time
    /\ u.email /= None =>
          \E i \in 1..Len(details.attendees) : details.attendees[i].email = u.email

\* C4: two turns of one conversation processed at the same time lose no
\* field update: after both, the stored PendingAction holds the fields that
\* each of them gave.
C4_NoLostUpdate ==
    (\A r \in Requests : turns[r].pc = "done") =>
       /\ pending_event /= <<>>
       /\ \A r \in Requests : Contributed(turns[r].u[1], pending_event[1])

(***************************************************************************)
(* Claims on the freshness test and on the sign-off request.               *)
(***************************************************************************)
\* The stored availability check of the pending event is for the event's
\* current date, time and duration.
SameWindowCheck(details) ==
    /\ details.availability_checked /= <<>>
    /\ details.availability_checked[1].date = details.date
    /\ details.availability_checked[1].time = details.time
    /\ details.availability_checked[1].duration_minutes = Duration(details)

\* C11: the freshness test is true only for a stored check whose date, time
\* and duration equal the event's current ones and whose checked_at lies at
\* most TTL_MINUTES before now; a check older than that is never fresh.  A
\* turn that relied on the test (it asked for sign-off without calling the
\* conflict check) left such a check in the store.
C11_FreshOnlyWithinTTL ==
    /\ [](pending_event /= <<>> =>
            /\ _availability_check_is_fresh(pending_event[1], now) =>
                  /\ SameWindowCheck(pending_event[1])
                  /\ now - pending_event[1].availability_checked[1].checked_at
                       <= TTL_MINUTES
            /\ (/\ pending_event[1].availability_checked /= <<>>
                /\ now - pending_event[1].availability_checked[1].checked_at
                     > TTL_MINUTES)
                 => ~_availability_check_is_fresh(pending_event[1], now))
    /\ [][(/\ now' = now /\ tz_ok
           /\ last'.agent = "calendar" /\ last'.had_pending /\ ~last'.confirm
           /\ last'.message = "confirm_details" /\ last'.checked = "none")
            => /\ pending_event' /= <<>>
               /\ SameWindowCheck(pending_event'[1])
               /\ now - pending_event'[1].availability_checked[1].checked_at
                    <= TTL_MINUTES]_vars

\* A check with the event's current fields that is older than the TTL, and
\* a turn after it that had to check again.
C11_Witness ==
    /\ pending_event /= <<>>
    /\ SameWindowCheck(pending_event[1])
    /\ pending_event[1].availability_checked[1].checked_at = MaxTicks * TTL_MINUTES
    /\ last.agent = "calendar" /\ ~last.confirm /\ last.stored /= "none"
    /\ ~last.time_changed /\ last.checked /= "none"

\* C12: with a valid time zone configured, a non-confirmation turn asks for
\* sign-off ("Please confirm the meeting details") only if the availability
\* check of the event's current date, time and duration has status clear;
\* while that check has status conflict the turn asks for another date/time.
C12_SignOffOnlyWhenClear ==
    (/\ tz_ok /\ last.agent = "calendar" /\ ~last.confirm
     /\ last.message = "confirm_details")
      => /\ pending_event /= <<>>
         /\ SameWindowCheck(pending_event[1])
         /\ pending_event[1].availability_checked[1].status = "clear"

(***************************************************************************)
(* Claims about the router's decision and the steps after it.              *)
(***************************************************************************)
\* add_node: the node that runs a registered worker.
NodeOfAgent(a) == IF a = "task" THEN "task_agent" ELSE a

\* The delegations of the router's response, sorted, with the agent names
\* as the router reads them.
PlannedAgents ==
    [i \in 1..Len(results[1].delegations) |-> Lower(results[1].delegations[i].agent)]

\* The delegation with the smallest priority number (the first of them).
FirstPriority ==
    LET d == results[1].delegations
    IN FirstIndex({i \in 1..Len(d) : \A j \in 1..Len(d) : d[i].priority <= d[j].priority})

\* C13: if the router's decision requests clarification, the run halts right
\* after the router step, whatever the configured maximum: no worker and no
\* Synthesizer step runs.
C13_HaltsAfterRouterClarification ==
    (steps.router = 1 /\ results[1].status = "needs_clarification")
      => /\ node = END
         /\ steps.worker = 0
         /\ steps.synthesizer = 0

\* C14: after a router step below the iteration bound whose decision asks
\* for no clarification and whose plan is not empty, the step that runs next
\* is the registered worker named by the delegation with the smallest
\* priority number, whichever of the six workers that is.
C14_FirstPriorityWorkerRunsNext ==
    (/\ steps.router = 1 /\ steps.worker = 0 /\ steps.synthesizer = 0
     /\ node /= "raised"
     /\ iteration_count < max_iterations
     /\ results[1].status /= "needs_clarification"
     /\ results[1].delegations /= <<>>
     /\ PlannedAgents[FirstPriority] \in Workers)
      => node = NodeOfAgent(PlannedAgents[FirstPriority])

\* The plan of the run names k >= 2 distinct registered workers, none of
\* them the export worker, with k + 1 below the iteration maximum.
PlanOfSeveralWorkers ==
    /\ steps.router = 1
    /\ results[1].status = "delegated"
    /\ Len(PlannedAgents) >= 2
    /\ \A i \in 1..Len(PlannedAgents) : PlannedAgents[i] \in Workers \ {"pdf"}
    /\ \A i, j \in 1..Len(PlannedAgents) :
          PlannedAgents[i] = PlannedAgents[j] => i = j
    /\ Len(PlannedAgents) + 1 < max_iterations

\* C15: a run with such a plan has, when the Synthesizer has run, executed
\* each of the k workers exactly once, in priority order.
C15_PlanExecutedInOrder ==
    (PlanOfSeveralWorkers /\ steps.synthesizer = 1)
      => /\ steps.worker = Len(PlannedAgents)
         /\ Len(results) = Len(PlannedAgents) + 1
         /\ \A i \in 1..Len(PlannedAgents) :
               results[i + 1].agent_name = PlannedAgents[i]

\* C16 (as stated): after a step of the export worker the run ends at once,
\* whatever delegations remain and whatever the iteration counter is.
C16_EndsAfterExport ==
    current_agent = "pdf" => node = END

\* C16 (amended): after a step of the export worker that leaves the
\* iteration counter below the maximum the run ends at once, whatever
\* delegations remain; with the counter at the maximum the Synthesizer runs
\* next.
C16_EndsAfterExportBelowBound ==
    current_agent = "pdf" =>
      /\ iteration_count < max_iterations => node = END
      /\ iteration_count >= max_iterations => node = "synthesizer"

\* The export worker ran after another worker, with a delegation to a
\* registered worker still in the context, and the run ended.
C16_Witness ==
    /\ current_agent = "pdf"
    /\ steps.worker = 2
    /\ task_context.remaining_delegations /= <<>>
    /\ task_context.remaining_delegations[1].agent \in Workers
    /\ iteration_count < max_iterations
    /\ node = END

\* C17: every router or worker step appends one message and one outcome and
\* adds one to the counter, so the messages of router and worker steps
\* number as many as the outcomes; a worker step that raises leaves
\* messages, outcomes and counter as they were.
C17_StepCommitsAtomically ==
    /\ [](/\ Len(results) = steps.router + steps.worker
          /\ Len(messages) - steps.synthesizer = Len(results)
          /\ iteration_count = Len(messages))
    /\ [][(steps'.router + steps'.worker = steps.router + steps.worker + 1)
            => /\ Len(messages') = Len(messages) + 1
               /\ Len(results') = Len(results) + 1
               /\ iteration_count' = iteration_count + 1]_vars
    /\ [][node' = "raised"
            => UNCHANGED <<messages, results, iteration_count>>]_vars

\* A worker raised after the router and another worker had completed.
C17_Witness ==
    /\ node = "raised"
    /\ steps.router = 1
    /\ steps.worker >= 1
    /\ Len(messages) = 2

\* C18: every decision of the router requests clarification or names a
\* registered worker as its first-priority delegation.
C18_DecisionViable ==
    steps.router = 1 =>
      \/ results[1].status = "needs_clarification"
      \/ /\ results[1].delegations /= <<>>
         /\ PlannedAgents[FirstPriority] \in Workers

(***************************************************************************)
(* Claims about the life of a pending event and of a pending email.        *)
(***************************************************************************)
\* C19: once a successful booking has deleted the pending event, a turn of
\* the same conversation that expresses no new scheduling intent stores no
\* pending event again and books nothing.
C19_NoPendingAfterBooking ==
    [][(/\ last.agent = "calendar" /\ last.delivered /\ pending_event = <<>>
        /\ last'.agent = "calendar" /\ ~last'.intent)
        => /\ pending_event' = <<>>
           /\ ~last'.called]_vars

\* C20: send_email is called only on a turn recognised as a confirmation
\* while a pending email is stored, and a pending email is stored only with
\* recipient, subject and body all non-empty: no email is sent with one of
\* them missing, and none without a confirmation turn.
C20_SendOnlyConfirmedAndComplete ==
    /\ pending_email /= <<>> =>
          /\ pending_email[1].to /= None
          /\ pending_email[1].subject /= None
          /\ pending_email[1].body /= None
    /\ (last.agent = "email" /\ last.called) =>
          /\ last.confirm
          /\ last.had_pending
          /\ last.event /= <<>>
          /\ last.event[1].to /= None
          /\ last.event[1].subject /= None
          /\ last.event[1].body /= None

\* A stored draft was sent on a confirmation turn.
C20_Witness ==
    /\ last.agent = "email"
    /\ last.confirm
    /\ last.had_pending
    /\ last.called
    /\ last.delivered
    /\ last.event /= <<>>
    /\ last.event[1].to = "r1"

(***************************************************************************)
(* Claims about the required fields of a pending event.                    *)
(***************************************************************************)
\* The names of the attendees of a list that have no email, in list order.
NamesWithoutEmail(attendees) ==
    LET without == SelectSeq(attendees, LAMBDA a : a.email = None)
    IN [i \in 1..Len(without) |-> without[i].name]

\* The required fields an event lacks, in the order title, date, time,
\* attendee email.
Lacking(details) ==
    (IF details.title = None THEN <<Missing("title", <<>>)>> ELSE <<>>)
      \o (IF details.date = None THEN <<Missing("date", <<>>)>> ELSE <<>>)
      \o (IF details.time = None THEN <<Missing("time", <<>>)>> ELSE <<>>)
      \o (IF details.attendees = <<>> THEN <<Missing("attendee email", <<>>)>>
          ELSE IF NamesWithoutEmail(details.attendees) /= <<>>
          THEN <<Missing("attendee email for",
                         NamesWithoutEmail(details.attendees))>>
          ELSE <<>>)

\* C21: while the pending event lacks a required field, the turn of the
\* scheduling agent, confirmation or not, checks no availability, books
\* nothing, and asks for exactly the lacking fields in the order title,
\* date, time, attendee email.
C21_CollectingWhileFieldsMissing ==
    (/\ last.agent = "calendar" /\ last.message /= "llm"
     /\ pending_event /= <<>> /\ Lacking(pending_event[1]) /= <<>>)
      => /\ last.checked = "none"
         /\ ~last.called
         /\ last.status = "needs_clarification"
         /\ last.message = "provide"
         /\ last.asked = Lacking(pending_event[1])

\* A confirmation turn on an event that lacks its title and the email of
\* its named attendee.
C21_Witness ==
    /\ last.agent = "calendar" /\ last.confirm /\ last.message = "provide"
    /\ pending_event /= <<>>
    /\ Len(last.asked) = 2
    /\ last.asked[1].field = "title"
    /\ last.asked[2].field = "attendee email for"
    /\ last.asked[2].names = <<"n1">>

(***************************************************************************)
(* Claims about the attendee merge.                                        *)
(***************************************************************************)
\* The entries of a list as a set: the name/email pairings it holds, with
\* upper and lower case taken for the same.
EntrySet(list) ==
    {[name |-> Lower(list[i].name), email |-> Lower(list[i].email)] :
       i \in 1..Len(list)}

\* C22: merging the same incoming list a second time changes no entry and
\* adds no entry: merge(merge(A, B), B) = merge(A, B).
C22_MergeIdempotent ==
    merges > 0 => att_twice = att_list

\* C23: merging the entries of the incoming list in any order yields the
\* same set of attendee entries, with the same name/email pairings.
C23_MergeOrderIndependent ==
    merges > 0 => \A other \in att_orders : EntrySet(other) = EntrySet(att_list)

\* C24: starting from an empty list, after any sequence of merges no two
\* entries have the same non-empty email compared case-insensitively.
C24_EmailsUnique ==
    \A i, j \in 1..Len(att_list) :
      (/\ att_list[i].email /= None
       /\ att_list[j].email /= None
       /\ Lower(att_list[i].email) = Lower(att_list[j].email))
        => i = j

\* An email already in the list came in again in the other case, next to
\* an entry with another email, and the list holds two entries.
C24_Witness ==
    /\ merges = MaxMerges
    /\ Len(att_list) = 2
    /\ att_list[1].email = "e1"
    /\ att_list[2].email = "e2"
    /\ \E i \in 1..Len(att_new) : att_new[i].email = "E1"

(***************************************************************************)
(* Claims about the keyword fallback.                                      *)
(***************************************************************************)
\* The categories of the table, in table order, that have a keyword
\* occurring in the lowercased text.
MatchingCategories(text) ==
    SelectSeq(<<"calendar", "email", "research", "task", "analytics", "pdf">>,
              LAMBDA c : \E keyword \in keywords[c] : Occurs(keyword, LowerText(text)))

\* C25: the fallback returns, in table order, exactly one priority-1
\* delegation for each category with a keyword occurring in the lowercased
\* task, and exactly one research delegation at priority 1 when no category
\* matches; it asks for no clarification.
C25_FallbackClassifies ==
    fallback_decision /= <<>> =>
      LET delegations == fallback_decision[1].delegations
          expected == IF MatchingCategories(fallback_task) = <<>> THEN <<"research">>
                      ELSE MatchingCategories(fallback_task)
      IN /\ ~fallback_decision[1].needs_clarification
         /\ Len(delegations) = Len(expected)
         /\ \A i \in 1..Len(delegations) :
               /\ Lower(delegations[i].agent) = expected[i]
               /\ delegations[i].priority = 1

\* "sometimes metadata": no keyword is a word of the text, two are
\* substrings of its words.
C25_Witness ==
    /\ fallback_decision /= <<>>
    /\ Len(fallback_task) = 18
    /\ Len(fallback_decision[1].delegations) = 2
    /\ fallback_decision[1].delegations[1].agent = "CALENDAR"
    /\ fallback_decision[1].delegations[2].agent = "ANALYTICS"

(***************************************************************************)
(* Claims about failures of a booking attempt.                             *)
(***************************************************************************)
\* C26: with an invalid calendar time zone configured, a booking attempt on
\* a confirmation turn (all fields present, no conflict stored) ends with an
\* outcome of status error, creates no event and keeps the pending event.
C26_InvalidTimezoneIsError ==
    (/\ ~tz_ok /\ last.agent = "calendar" /\ last.confirm
     /\ last.message \notin {"llm", "provide", "conflict"})
      => /\ last.status = "error"
         /\ ~last.called
         /\ pending_event /= <<>>

(***************************************************************************)
(* Claims about the draft a confirmation sends.                            *)
(***************************************************************************)
\* C27: when the messaging agent showed a draft with the prompt to reply
\* "send it" and the next turn is a confirmation that sends a message, the
\* message sent is that draft; an older stored message is never sent in
\* place of a draft that was shown but not stored.
C27_SendsTheDraftShown ==
    [][(/\ last.agent = "email" /\ last.shown /= <<>>
        /\ last'.agent = "email" /\ last'.confirm /\ last'.called)
         => last'.event = last.shown]_vars

(***************************************************************************)
(* Claims about the confirmation snapshot.                                 *)
(***************************************************************************)
\* C29: in every stored pending event a confirmation snapshot is present only
\* together with an availability check of status clear, and both carry the
\* pending event's date, time and duration; no snapshot is stored next to a
\* conflicting check or without a check.
C29_SnapshotOnlyWithClearCheck ==
    (pending_event /= <<>> /\ pending_event[1].confirmation_snapshot /= <<>>) =>
       LET details == pending_event[1]
           snapshot == details.confirmation_snapshot[1]
       IN /\ details.availability_checked /= <<>>
          /\ details.availability_checked[1].status = "clear"
          /\ snapshot.status = "clear"
          /\ \A stored \in {snapshot, details.availability_checked[1]} :
                /\ stored.date = details.date
                /\ stored.time = details.time
                /\ stored.duration_minutes = Duration(details)

\* C29 witness: a pending event whose clear check went stale was checked
\* again, the time is now taken, and the pending event is stored with the
\* conflicting check and without a snapshot.
C29_Witness ==
    /\ last.agent = "calendar"
    /\ last.stored = "clear"
    /\ last.checked = "busy"
    /\ ~last.time_changed
    /\ pending_event /= <<>>
    /\ pending_event[1].availability_checked /= <<>>
    /\ pending_event[1].availability_checked[1].status = "conflict"
    /\ pending_event[1].confirmation_snapshot = <<>>

(***************************************************************************)
(* Claims about the router's place in a run.                               *)
(***************************************************************************)
\* C30: in every workflow run the router step is executed once and first: no
\* worker or synthesizer step precedes it and it never runs again; whenever
\* the synthesizer is about to run or has run, the result list holds at
\* least the router's own outcome, so the synthesizer never sees an empty
\* result list.
C30_RouterOnceAndFirst ==
    /\ steps.router <= 1
    /\ node = "orchestrator" =>
          steps = [router |-> 0, worker |-> 0, synthesizer |-> 0] /\ results = <<>>
    /\ node /= "orchestrator" => steps.router = 1
    /\ (node = "synthesizer" \/ steps.synthesizer > 0) =>
          /\ Len(results) >= 1
          /\ results[1].agent_name = "orchestrator"

\* C30 witness: the router's step reached the iteration bound, the
\* synthesizer ran right after it, and the result list holds the router's
\* outcome only.
C30_Witness ==
    /\ node = END
    /\ steps = [router |-> 1, worker |-> 0, synthesizer |-> 1]
    /\ max_iterations = 1
    /\ Len(results) = 1
    /\ results[1].agent_name = "orchestrator"

(***************************************************************************)
(* Claims about the side context.                                          *)
(***************************************************************************)
\* C28: no workflow step modifies task_context; when its
\* remaining_delegations is not empty and its first entry names a registered
\* worker other than the export worker, every step of a worker (the export
\* worker's own step, which ends the run, aside) is followed by that worker
\* while the iteration counter is below the maximum, and by the synthesizer
\* once it has reached the maximum.
C28_ContextFixedFirstEntryRepeats ==
    [][/\ task_context' = task_context
       /\ (/\ steps'.worker = steps.worker + 1
           /\ current_agent' /= "pdf"
           /\ task_context.remaining_delegations /= <<>>
           /\ task_context.remaining_delegations[1].agent \in Workers \ {"pdf"})
            => node' = IF iteration_count' < max_iterations
                       THEN NodeOfAgent(task_context.remaining_delegations[1].agent)
                       ELSE "synthesizer"]_vars

====
